---- MODULE Spec2Model ----
(***************************************************************************)
(* Model of the asynchronous task engine of testboom:                      *)
(*   src/src/api/services/task.py   TaskManager (task table, update_task,  *)
(*                                  run_background_task, _run_task,        *)
(*                                  _ensure_background_loop)               *)
(*   src/src/api/services/case.py   CaseService._generate_cases and        *)
(*                                  _process_zip_file (the generation job) *)
(*   src/src/ai_core/chat_manager.py generate_testcases (the batch loop)   *)
(*   src/src/api/routers/case.py    process_plantuml_task                  *)
(*   src/src/utils/decorators.py    retry, handle_exceptions               *)
(*   src/src/ai_core/chat_manager.py analyze_requirement (the analysis of  *)
(*                                  the images and its multi-image summary)*)
(*   src/src/api/services/task.py   list_tasks, delete_task                *)
(*                                                                         *)
(* The task table is a database table; every update_task call opens its    *)
(* own session, SELECTs the row, changes the loaded object and COMMITs.    *)
(* The two awaits (execute, commit) are two steps of the model, so calls   *)
(* of different coroutines and threads interleave between them.            *)
(* Log messages are written in English; the Chinese originals are quoted   *)
(* where a message is defined.                                             *)
(***************************************************************************)
EXTENDS Integers, Sequences, FiniteSets, TLC

\* ------------------------------------------------------------ bounds
\* number of task ids (uuid4 values) that are ever allocated
MaxTasks == 2
\* number of jobs that are ever started (run_background_task / asyncio.create_task)
MaxRuns == 2
\* number of generation jobs (_generate_cases) among them
MaxGenRuns == 1
\* number of update_task calls issued by API clients outside the jobs
MaxExtCalls == 2
\* number of tasks the API clients of SpecConc create
MaxConcTasks == 1
\* the largest max_retries, delay and backoff a retry decorator is built with
MaxRetriesArg == 3
MaxDelay == 2
MaxBackoff == 3
\* number of image paths a generation request names
MaxImages == 2
\* number of run_background_task calls each calling thread makes
MaxCalls == 2
\* number of further calls of a decorated function after its first call
MaxCallsAgain == 1
\* number of rows of the task table list_tasks and delete_task are called on,
\* the largest updated_at among them, the largest page and page_size
MaxRows == 3
MaxTime == 2
MaxPage == 3
MaxPageSize == 2

\* ------------------------------------------------------------ values
\* Python's None for an optional string argument / column
None == "None"
\* Python's None for the optional progress argument
NoProgress == -1

TaskIds == 1..MaxTasks
ExtProcs == {"req", "worker"}

\* the empty dict
EmptyMap == [k \in {} |-> ""]

\* dict.get(k, d)
Get(m, k, d) == IF k \in DOMAIN m THEN m[k] ELSE d

\* new_result = task.result.copy(); new_result.update(result)
MergeResultDropsOld(old, new) == new

MergeResult(old, new) ==
    [k \in (DOMAIN old) \cup (DOMAIN new) |->
        IF k \in DOMAIN new THEN new[k] ELSE old[k]]

\* the arguments of one update_task call (None / NoProgress / hasResult = FALSE
\* stand for an argument that was not passed)
UpdArgs(status, progress, hasResult, result, error) ==
    [status |-> status, progress |-> progress, hasResult |-> hasResult,
     result |-> result, error |-> error]

\* the Task row inserted by create_task; params.get(k, '') for the two context keys
NewTask(task_type, params) ==
    [type |-> task_type, status |-> "pending", progress |-> 0,
     result |-> [progress |-> "task created",       \* '任务已创建，等待处理...'
                 project_name |-> Get(params, "project_name", ""),
                 module_name |-> Get(params, "module_name", "")],
     error |-> None,
     project_name |-> Get(params, "project_name", ""),
     module_name |-> Get(params, "module_name", "")]

\* the row as stored by the INSERT: created_at = Column(DateTime,
\* default=datetime.now) is filled in with the time of the insert
Inserted(row, now) == row @@ [created_at |-> now]

\* the object update_task holds after its assignments: the loaded row `snap`
\* with every passed argument applied
AppliedReplacesResult(snap, a) ==
    [snap EXCEPT
        !.status = IF a.status # None THEN a.status ELSE @,
        !.progress = IF a.progress # NoProgress THEN a.progress ELSE @,
        !.result = IF a.hasResult THEN a.result ELSE @,
        !.error = IF a.error # None THEN a.error ELSE @]

Applied(snap, a) ==
    [snap EXCEPT
        !.status = IF a.status # None THEN a.status ELSE @,
        !.progress = IF a.progress # NoProgress THEN a.progress ELSE @,
        !.result = IF a.hasResult THEN MergeResult(@, a.result) ELSE @,
        !.error = IF a.error # None THEN a.error ELSE @]

\* session.commit(): the ORM's UPDATE sets the columns whose value differs from
\* the loaded one; the other columns of the stored row are not written
Committed(cur, snap, a) ==
    LET obj == Applied(snap, a) IN
    [cur EXCEPT
        !.status = IF obj.status # snap.status THEN obj.status ELSE @,
        !.progress = IF obj.progress # snap.progress THEN obj.progress ELSE @,
        !.result = IF obj.result # snap.result THEN obj.result ELSE @,
        !.error = IF obj.error # snap.error THEN obj.error ELSE @]

\* get_task_info: the row as a dict, or NotFound
NotFound == [found |-> FALSE]
get_task_info(tbl, task_id) ==
    IF task_id \in DOMAIN tbl
    THEN [found |-> TRUE, id |-> task_id, type |-> tbl[task_id].type,
          status |-> tbl[task_id].status, progress |-> tbl[task_id].progress,
          result |-> tbl[task_id].result, error |-> tbl[task_id].error]
    ELSE NotFound

\* ------------------------------------------------------------ state
VARIABLES
    tasks,      \* the task table: task id -> row (DOMAIN tasks = the stored ids)
    nextId,     \* the next fresh uuid
    supplied,   \* task id -> the type and params its creator passed to create_task
    runs,       \* the started jobs, in start order: each a coroutine with its locals
    extCall,    \* API client -> its latest update_task call (<<>> when none), in
                \* flight or returned
    extLeft,    \* update_task calls the API clients may still issue
    files,      \* the file table: file id -> [status, error]
    cases,      \* the test-case table: task id -> number of cases saved with that task_id
    reqRaised,  \* operations that raised into the request-handling context
    rt,         \* one call of a function decorated with retry: the wrapper's locals
    an,         \* one analysis of requirement images: the locals of
                \* _process_zip_file and analyze_requirement up to `if not summary`
    bg,         \* the background worker: the class attributes _background_thread,
                \* _background_loop, _background_event, the threads and loops
                \* created, and the threads calling run_background_task
    api         \* one list_tasks or delete_task call: the task table and the
                \* case counts it runs on, its arguments, what it returned

\* the variables of the task engine, and those of the other components
engineVars == <<tasks, nextId, supplied, runs, extCall, extLeft, files, cases, reqRaised>>
sideVars == <<rt, an, bg, api>>
vars == <<tasks, nextId, supplied, runs, extCall, extLeft, files, cases, reqRaised,
          rt, an, bg, api>>

\* the ids create_task has returned
Created == DOMAIN supplied

\* ------------------------------------------------------------ inputs
\* requests the callers of create_task make:
\*   generate_cases_from_file builds {'project_name': p, 'module_name': m or ''};
\*   generate_plantuml_async passes case_id, case_content, diagram_type, format
GenParams == {[project_name |-> "Acme", module_name |-> ""],
              [project_name |-> "Acme", module_name |-> "Login"]}
PlantumlParams == [case_id |-> "c1", case_content |-> "content",
                   diagram_type |-> "mindmap", format |-> "svg"]
CreateRequests ==
    {[type |-> "generate_cases", params |-> p] : p \in GenParams}
    \cup {[type |-> "plantuml_generation", params |-> PlantumlParams]}

\* file ids a generation request names: "f1" is stored, "f0" is not
FileIds == {"f0", "f1"}

\* arguments of the update_task calls of API clients
ExtArgs == {UpdArgs(None, NoProgress, TRUE, [a |-> 1], None),
            UpdArgs(None, NoProgress, TRUE, [b |-> 2], None),
            UpdArgs("running", NoProgress, FALSE, EmptyMap, None)}

\* what an arbitrary job passed to run_background_task returns or raises
JobReturns == {[answer |-> 42]}
JobErrors == {"boom"}

\* no decorated call is under way
RetryIdle == [pc |-> "idle"]
\* no analysis is under way
AnalyzeIdle == [pc |-> "idle"]
\* the class attributes as defined: _background_thread = None, ...
WorkerIdle == [thread |-> 0, loop |-> 0, event |-> 0]
\* no list_tasks or delete_task call is under way
ApiIdle == [pc |-> "idle"]

\* the task engine after import: empty tables, nothing started
EngineInit ==
    /\ tasks = [t \in {} |-> 0]
    /\ nextId = 1
    /\ supplied = [t \in {} |-> 0]
    /\ runs = <<>>
    /\ extCall = [p \in ExtProcs |-> <<>>]
    /\ extLeft = MaxExtCalls
    /\ files = [f \in {"f1"} |-> [status |-> "pending", error |-> None]]
    /\ cases = [t \in TaskIds |-> 0]
    /\ reqRaised = {}

Init ==
    /\ EngineInit
    /\ rt = RetryIdle
    /\ an = AnalyzeIdle
    /\ bg = WorkerIdle
    /\ api = ApiIdle

\* ------------------------------------------------------------ create / delete
\* create_task(task_type, params) with a dict: inserts the row, returns the id
\* (the number of the insert stands for the time of the insert)
CreateTask(req) ==
    /\ nextId <= MaxTasks
    /\ tasks' = tasks @@ (nextId :> Inserted(NewTask(req.type, req.params), nextId))
    /\ supplied' = supplied @@ (nextId :> req)
    /\ nextId' = nextId + 1
    /\ UNCHANGED <<runs, extCall, extLeft, files, cases, reqRaised, sideVars>>

\* create_task(task_type) with the default params=None: the uuid is drawn, then
\* params.get raises AttributeError before the row is added; nothing catches it
CreateTaskNoParams ==
    /\ nextId <= MaxTasks
    /\ nextId' = nextId + 1
    /\ reqRaised' = reqRaised \cup {"create_task"}
    /\ UNCHANGED <<tasks, supplied, runs, extCall, extLeft, files, cases, sideVars>>

\* delete_task(task_id) on a stored task (delete_cases = False): removes the row
DeleteTask(t) ==
    /\ t \in DOMAIN tasks
    /\ tasks' = [x \in (DOMAIN tasks) \ {t} |-> tasks[x]]
    /\ UNCHANGED <<nextId, supplied, runs, extCall, extLeft, files, cases, reqRaised, sideVars>>

\* ------------------------------------------------------------ update_task of an API client
ExtInFlight(p) == extCall[p] # <<>> /\ ~extCall[p][1].returned

\* SELECT of update_task(t, a): the row is loaded into the call's session
ExtUpdateRead(p, t, a) ==
    /\ extLeft > 0
    /\ ~ExtInFlight(p)
    /\ t \in DOMAIN tasks
    /\ extCall' = [extCall EXCEPT ![p] =
                    <<[task |-> t, args |-> a, snap |-> tasks[t], returned |-> FALSE]>>]
    /\ extLeft' = extLeft - 1
    /\ UNCHANGED <<tasks, nextId, supplied, runs, files, cases, reqRaised, sideVars>>

\* the assignments and session.commit() of the call in flight
ExtUpdateCommit(p) ==
    /\ ExtInFlight(p)
    /\ LET c == extCall[p][1] IN
        /\ c.task \in DOMAIN tasks
        /\ tasks' = [tasks EXCEPT ![c.task] = Committed(@, c.snap, c.args)]
        /\ extCall' = [extCall EXCEPT ![p] = <<[c EXCEPT !.returned = TRUE]>>]
    /\ UNCHANGED <<nextId, supplied, runs, extLeft, files, cases, reqRaised, sideVars>>

\* ------------------------------------------------------------ jobs
\* batches = [...] of generate_testcases: three batches
NumBatches == 3

\* error messages
AIPrefix == "AI failed: "                        \* 'AI处理失败: '
StaleMsg == "UPDATE matched 0 rows"              \* sqlalchemy StaleDataError
FileMissingMsg == "file not found"               \* '文件不存在'
NoImagesMsg == "no valid image files"            \* '没有有效的图片文件'
AnalysisFailedMsg == "requirement analysis failed"   \* '需求分析失败'
GenerationFailedMsg == "case generation failed"  \* '用例生成失败'
PlantumlCodeMsg == "plantuml code failed"        \* '生成PlantUML代码失败'
RenderMsg == "render failed"                     \* '渲染图片失败'

\* the positions at which a job awaits an update_task call
UpdatePcs == {"run_running", "run_completed", "run_failed", "wrapped_failed",
              "zip_analyzing", "zip_generating", "zip_generated",
              "gen_saving", "gen_completed", "gen_failed",
              "pl_processing", "pl_fail_export", "pl_half", "pl_fail_render",
              "pl_completed", "pl_except"}
DonePcs == {"done_returned", "done_raised"}

\* the event loop a job's coroutine is scheduled on:
\* asyncio.run_coroutine_threadsafe(wrapped_task(), cls._background_loop) puts
\* it on the loop of the background thread ("worker");
\* asyncio.create_task(process_plantuml_task(...)) in the endpoint puts it on
\* the running loop, the one that handles the requests ("request")
ExecutionContext(kind) == IF kind = "plantuml" THEN "request" ELSE "worker"

\* a started job: wrapped_task of run_background_task (kinds "generate": the
\* coroutine _generate_cases, "generic": any other coroutine) or
\* process_plantuml_task (kind "plantuml")
NewRun(t, kind, file_id, params) ==
    [task |-> t, kind |-> kind,
     context |-> ExecutionContext(kind),   \* the loop that executes the job
     pc |-> IF kind = "plantuml" THEN "pl_processing" ELSE "run_running",
     call |-> <<>>,            \* the update_task call in flight
     exc |-> None,             \* the exception being handled (its message)
     raised |-> None,          \* the message of the exception the job raised into _run_task
     returned |-> FALSE,       \* the job returned to _run_task
     ret |-> EmptyMap,         \* the job's return value
     file_id |-> file_id,
     project_name |-> Get(params, "project_name", ""),
     module_name |-> Get(params, "module_name", ""),
     idx |-> 0,                \* the batch being generated
     all_testcases |-> <<>>,   \* all_testcases of generate_testcases
     outs |-> <<>>,            \* what _generate_batch_testcases returned, batch by batch
     testcases |-> <<>>,       \* the list generate_testcases returned
     callbacks |-> <<>>,       \* the progress_callback calls of generate_testcases
     logged |-> <<>>,          \* the levels of the records the job's latest
                               \* update_task call logged
     failedCalls |-> 0]        \* update_task(status='failed') calls issued so far

\* progress_callback(batch["type"], None) in generate_testcases: the callback
\* is the coroutine function update_progress and the call is not awaited, so
\* the coroutine object is created and dropped and its body (an update_task
\* call) never runs. `concluded` is the number of batches whose attempt had
\* concluded when the call was made.
CallProgress(item, concluded) == [item |-> item, concluded |-> concluded, ran |-> FALSE]

\* the context keys every result dict of the generation job carries
Context(r) == [project_name |-> r.project_name, module_name |-> r.module_name]

ResultArgs(r, msg) ==
    UpdArgs(None, NoProgress, TRUE, MergeResult(Context(r), [progress |-> msg]), None)

\* _run_task, try: update_task(status='running', progress=0, result={...})
RunRunningArgs(r) ==
    UpdArgs("running", 0, TRUE, [progress |-> "task started"], None)
\* _run_task, after the job returned
RunCompletedArgs(r) ==
    UpdArgs("completed", 100, TRUE, [progress |-> "task finished"], None)
\* _run_task, except: update_task(status='failed', error=str(e))
RunFailedArgs(r) == UpdArgs("failed", NoProgress, FALSE, EmptyMap, r.exc)
\* wrapped_task, except: update_task(status='failed', error=str(e))
WrappedFailedArgsCompleted(r) == UpdArgs("completed", NoProgress, FALSE, EmptyMap, None)
WrappedFailedArgs(r) == UpdArgs("failed", NoProgress, FALSE, EmptyMap, r.exc)
\* _generate_cases, last update of the try block
GenCompletedArgs(r) ==
    UpdArgs("completed", NoProgress, TRUE,
            MergeResult(Context(r), [progress |-> "cases generated",
                                     cases_count |-> Len(r.testcases)]), None)
\* _generate_cases, except: update_task(status='failed', error=error_msg)
GenFailedArgs(r) == UpdArgs("failed", NoProgress, FALSE, EmptyMap, r.exc)

\* the arguments of the update_task call at the job's position
CallArgs(r) ==
    CASE r.pc = "run_running" -> RunRunningArgs(r)
      [] r.pc = "run_completed" -> RunCompletedArgs(r)
      [] r.pc = "run_failed" -> RunFailedArgs(r)
      [] r.pc = "wrapped_failed" -> WrappedFailedArgs(r)
      [] r.pc = "zip_analyzing" -> ResultArgs(r, "analyzing requirement images")
      [] r.pc = "zip_generating" -> ResultArgs(r, "generating test cases")
      [] r.pc = "zip_generated" ->
            UpdArgs(None, NoProgress, TRUE,
                    MergeResult(Context(r), [progress |-> "generated, about to save",
                                             cases_count |-> Len(r.testcases)]), None)
      [] r.pc = "gen_saving" -> ResultArgs(r, "saving test cases")
      [] r.pc = "gen_completed" -> GenCompletedArgs(r)
      [] r.pc = "gen_failed" -> GenFailedArgs(r)
      [] r.pc = "pl_processing" -> UpdArgs("processing", 10, FALSE, EmptyMap, None)
      [] r.pc = "pl_fail_export" -> UpdArgs("failed", NoProgress, FALSE, EmptyMap, PlantumlCodeMsg)
      [] r.pc = "pl_half" -> UpdArgs(None, 50, FALSE, EmptyMap, None)
      [] r.pc = "pl_fail_render" -> UpdArgs("failed", NoProgress, FALSE, EmptyMap, RenderMsg)
      [] r.pc = "pl_completed" ->
            UpdArgs("completed", 100, TRUE,
                    [file_path |-> "output/plantuml", format |-> "svg",
                     diagram_type |-> "mindmap"], None)
      [] r.pc = "pl_except" -> UpdArgs("failed", NoProgress, FALSE, EmptyMap, r.exc)

\* where the job continues when the update_task call at its position returned
NextPc(r) ==
    CASE r.pc = "run_running" -> IF r.kind = "generate" THEN "gen_file" ELSE "job"
      [] r.pc = "run_completed" -> "done_returned"
      [] r.pc = "run_failed" -> "wrapped_failed"        \* raise
      [] r.pc = "wrapped_failed" -> "done_raised"       \* raise
      [] r.pc = "zip_analyzing" -> "zip_analyze"
      [] r.pc = "zip_generating" -> "zip_batch"
      [] r.pc = "zip_generated" -> "gen_saving"
      [] r.pc = "gen_saving" -> "gen_commit"
      [] r.pc = "gen_completed" -> "run_completed"      \* returns None
      [] r.pc = "gen_failed" -> "run_failed"            \* raise ValueError(error_msg)
      [] r.pc = "pl_processing" -> "pl_export"
      [] r.pc = "pl_half" -> "pl_render"
      [] r.pc \in {"pl_fail_export", "pl_fail_render", "pl_completed", "pl_except"}
            -> "done_returned"

AfterUpdate(r) ==
    [r EXCEPT !.call = <<>>,
              !.pc = NextPc(r),
              !.idx = IF r.pc = "zip_generating" THEN 1 ELSE @,
              !.callbacks = IF r.pc = "zip_generating"
                            THEN Append(@, CallProgress(1, 0)) ELSE @,
              !.returned = IF r.pc = "gen_completed" THEN TRUE ELSE @,
              !.raised = IF r.pc = "gen_failed" THEN r.exc ELSE @]

\* an exception with message msg raised at the job's position: the except
\* clause that catches it
\*   _process_zip_file, inner try (l.321): ValueError('AI处理失败: ' + str(e)),
\*       re-raised by the outer except (l.348) with the same message
\*   _generate_cases (l.159), _run_task (l.274), wrapped_task (l.56),
\*   process_plantuml_task (l.678)
Raise(r, msg) ==
    CASE r.pc \in {"zip_analyzing", "zip_analyze", "zip_generating", "zip_batch",
                   "zip_generated"}
            -> [r EXCEPT !.call = <<>>, !.pc = "gen_except", !.exc = AIPrefix \o msg]
      [] r.pc \in {"gen_file", "zip_paths", "gen_saving", "gen_commit", "gen_completed"}
            -> [r EXCEPT !.call = <<>>, !.pc = "gen_except", !.exc = msg]
      [] r.pc \in {"gen_failed", "job"}
            -> [r EXCEPT !.call = <<>>, !.pc = "run_failed", !.exc = msg, !.raised = msg]
      [] r.pc \in {"run_running", "run_completed"}
            -> [r EXCEPT !.call = <<>>, !.pc = "run_failed", !.exc = msg]
      [] r.pc = "run_failed"
            -> [r EXCEPT !.call = <<>>, !.pc = "wrapped_failed", !.exc = msg]
      [] r.pc \in {"wrapped_failed", "pl_except"}
            -> [r EXCEPT !.call = <<>>, !.pc = "done_raised", !.exc = msg]
      [] r.pc \in {"pl_processing", "pl_export", "pl_half", "pl_render",
                   "pl_fail_export", "pl_fail_render", "pl_completed"}
            -> [r EXCEPT !.call = <<>>, !.pc = "pl_except", !.exc = msg]

CountFailed(r, a) ==
    [r EXCEPT !.failedCalls = IF a.status = "failed" THEN @ + 1 ELSE @]

Runs == 1..Len(runs)
HasRun(t) == \E i \in Runs : runs[i].task = t

\* ------------------------------------------------------------ scheduling
\* generate_cases_from_file, after create_task returned t:
\* run_background_task(t, _generate_cases, file_id, project_name, module_name, t)
ScheduleGenerate(t, file_id) ==
    /\ Len(runs) < MaxRuns
    /\ Cardinality({i \in Runs : runs[i].kind = "generate"}) < MaxGenRuns
    /\ t \in Created
    /\ supplied[t].type = "generate_cases"
    /\ DOMAIN supplied[t].params = {"project_name", "module_name"}
    /\ runs' = Append(runs, NewRun(t, "generate", file_id, supplied[t].params))
    /\ UNCHANGED <<tasks, nextId, supplied, extCall, extLeft, files, cases, reqRaised, sideVars>>

\* run_background_task(t, coro) with any other coroutine
RunBackgroundTask(t) ==
    /\ Len(runs) < MaxRuns
    /\ t \in Created
    /\ runs' = Append(runs, NewRun(t, "generic", "f0", EmptyMap))
    /\ UNCHANGED <<tasks, nextId, supplied, extCall, extLeft, files, cases, reqRaised, sideVars>>

\* generate_plantuml_async, after create_task returned t:
\* asyncio.create_task(process_plantuml_task(t, ...))
StartPlantumlTask(t) ==
    /\ Len(runs) < MaxRuns
    /\ t \in Created
    /\ supplied[t].type = "plantuml_generation"
    /\ runs' = Append(runs, NewRun(t, "plantuml", "f0", EmptyMap))
    /\ UNCHANGED <<tasks, nextId, supplied, extCall, extLeft, files, cases, reqRaised, sideVars>>

\* ------------------------------------------------------------ update_task of a job
\* the log records of one update_task call: logger.info at its entry, nothing else
UpdateTaskLogs == <<"info">>

\* SELECT of the update_task call at the job's position; the row exists
UpdateRead(i) ==
    /\ runs[i].pc \in UpdatePcs
    /\ runs[i].call = <<>>
    /\ runs[i].task \in DOMAIN tasks
    /\ LET a == CallArgs(runs[i]) IN
        runs' = [runs EXCEPT ![i] =
                    [CountFailed(@, a) EXCEPT
                        !.logged = UpdateTaskLogs,
                        !.call = <<[args |-> a, snap |-> tasks[runs[i].task]]>>]]
    /\ UNCHANGED <<tasks, nextId, supplied, extCall, extLeft, files, cases, reqRaised, sideVars>>

\* the task is unknown: `if task:` is skipped, the call returns without a
\* write and without a further log record
UpdateUnknown(i) ==
    /\ runs[i].pc \in UpdatePcs
    /\ runs[i].call = <<>>
    /\ runs[i].task \notin DOMAIN tasks
    /\ runs' = [runs EXCEPT ![i] =
                    [AfterUpdate(CountFailed(@, CallArgs(@))) EXCEPT
                        !.logged = UpdateTaskLogs]]
    /\ UNCHANGED <<tasks, nextId, supplied, extCall, extLeft, files, cases, reqRaised, sideVars>>

\* the assignments and session.commit() of the call in flight
UpdateCommitAllRows(i) ==
    /\ runs[i].call # <<>>
    /\ runs[i].task \in DOMAIN tasks
    /\ LET c == runs[i].call[1] IN
        tasks' = [t \in DOMAIN tasks |-> Committed(tasks[t], c.snap, c.args)]
    /\ runs' = [runs EXCEPT ![i] = AfterUpdate(@)]
    /\ UNCHANGED <<nextId, supplied, extCall, extLeft, files, cases, reqRaised, sideVars>>

UpdateCommit(i) ==
    /\ runs[i].call # <<>>
    /\ runs[i].task \in DOMAIN tasks
    /\ LET c == runs[i].call[1] IN
        tasks' = [tasks EXCEPT ![runs[i].task] = Committed(@, c.snap, c.args)]
    /\ runs' = [runs EXCEPT ![i] = AfterUpdate(@)]
    /\ UNCHANGED <<nextId, supplied, extCall, extLeft, files, cases, reqRaised, sideVars>>

\* the row was deleted after the SELECT: the commit raises StaleDataError
UpdateStale(i) ==
    /\ runs[i].call # <<>>
    /\ runs[i].task \notin DOMAIN tasks
    /\ runs' = [runs EXCEPT ![i] = Raise(@, StaleMsg)]
    /\ UNCHANGED <<tasks, nextId, supplied, extCall, extLeft, files, cases, reqRaised, sideVars>>

SetRun(i, r) ==
    /\ runs' = [runs EXCEPT ![i] = r]
    /\ UNCHANGED <<tasks, nextId, supplied, extCall, extLeft, files, cases, reqRaised, sideVars>>

\* ------------------------------------------------------------ an arbitrary job
\* result = await coro(...): the job returns v
JobReturn(i, v) ==
    /\ runs[i].pc = "job"
    /\ SetRun(i, [runs[i] EXCEPT !.pc = "run_completed", !.ret = v, !.returned = TRUE])

\* the job raises an exception with message m
JobRaise(i, m) ==
    /\ runs[i].pc = "job"
    /\ SetRun(i, Raise(runs[i], m))

\* ------------------------------------------------------------ the generation job
\* _generate_cases: select(File).where(File.id == file_id); `if not file: raise`
GenFile(i) ==
    /\ runs[i].pc = "gen_file"
    /\ SetRun(i, IF runs[i].file_id \in DOMAIN files
                 THEN [runs[i] EXCEPT !.pc = "zip_paths"]
                 ELSE Raise(runs[i], FileMissingMsg))

\* _process_zip_file: the paths that exist on disk; `if not image_files: raise`
ZipPaths(i, has_images) ==
    /\ runs[i].pc = "zip_paths"
    /\ SetRun(i, IF has_images
                 THEN [runs[i] EXCEPT !.pc = "zip_analyzing"]
                 ELSE Raise(runs[i], NoImagesMsg))

\* summary = await chat_manager.analyze_requirement(...); `if not summary: raise`
ZipAnalyze(i, summary_ok) ==
    /\ runs[i].pc = "zip_analyze"
    /\ SetRun(i, IF summary_ok
                 THEN [runs[i] EXCEPT !.pc = "zip_generating"]
                 ELSE Raise(runs[i], AnalysisFailedMsg))

\* what _generate_batch_testcases returns for batch b: None after its retries
\* are exhausted, or the list under "testcases" of the model's answer (a case is
\* valid when it is a dict with all required fields)
BatchFailed == [ok |-> FALSE, cases |-> <<>>]
BatchOutcomes(b) ==
    {BatchFailed,
     [ok |-> TRUE, cases |-> <<[batch |-> b, valid |-> FALSE]>>],
     [ok |-> TRUE, cases |-> <<[batch |-> b, valid |-> TRUE],
                               [batch |-> b, valid |-> FALSE]>>]}

\* `if batch_cases: all_testcases.extend(batch_cases)`
ExtendReplaces(all, out) == IF out.ok /\ out.cases # <<>> THEN out.cases ELSE all

Extend(all, out) == IF out.ok /\ out.cases # <<>> THEN all \o out.cases ELSE all

IsValid(c) == c.valid
\* valid_testcases: the cases with all required fields, in order
ValidTestcases(all) == SelectSeq(all, IsValid)

\* generate_testcases: the end of one turn of `for batch in batches` (the await
\* of _generate_batch_testcases returns `out`) and the start of the next (its
\* progress_callback call), and after the last
\* batch the rest of the function and of _process_zip_file up to its next
\* await: `if not all_testcases: return None`, the validation, and
\* `if not testcases: raise ValueError("用例生成失败")`
ZipBatch(i, out) ==
    /\ runs[i].pc = "zip_batch"
    /\ LET r == runs[i]
           all == Extend(r.all_testcases, out)
           o == Append(r.outs, out)
       IN SetRun(i,
            IF r.idx < NumBatches
            THEN [r EXCEPT !.idx = @ + 1, !.all_testcases = all, !.outs = o,
                           !.callbacks = Append(@, CallProgress(r.idx + 1, r.idx))]
            ELSE IF ValidTestcases(all) = <<>>
                 THEN Raise([r EXCEPT !.all_testcases = <<>>, !.outs = o],
                            GenerationFailedMsg)
                 ELSE [r EXCEPT !.pc = "zip_generated", !.all_testcases = <<>>,
                                !.outs = o, !.testcases = ValidTestcases(all)])

\* _generate_cases: session.add(case) for every case, file.status = "success",
\* session.commit()
GenCommit(i) ==
    /\ runs[i].pc = "gen_commit"
    /\ runs' = [runs EXCEPT ![i].pc = "gen_completed"]
    /\ cases' = [cases EXCEPT ![runs[i].task] = @ + Len(runs[i].testcases)]
    /\ files' = [files EXCEPT ![runs[i].file_id] = [status |-> "success", error |-> None]]
    /\ UNCHANGED <<tasks, nextId, supplied, extCall, extLeft, reqRaised, sideVars>>

\* _generate_cases, except: error_msg = f"AI处理失败: {str(e)}"; the file, when
\* it exists, gets status "failed" and the message
GenExceptRawError(i) ==
    /\ runs[i].pc = "gen_except"
    /\ LET msg == AIPrefix \o runs[i].exc IN
        /\ runs' = [runs EXCEPT ![i].pc = "gen_failed", ![i].exc = msg]
        /\ files' = IF runs[i].file_id \in DOMAIN files
                    THEN [files EXCEPT ![runs[i].file_id] =
                            [status |-> "failed", error |-> runs[i].exc]]
                    ELSE files
    /\ UNCHANGED <<tasks, nextId, supplied, extCall, extLeft, cases, reqRaised, sideVars>>

GenExcept(i) ==
    /\ runs[i].pc = "gen_except"
    /\ LET msg == AIPrefix \o runs[i].exc IN
        /\ runs' = [runs EXCEPT ![i].pc = "gen_failed", ![i].exc = msg]
        /\ files' = IF runs[i].file_id \in DOMAIN files
                    THEN [files EXCEPT ![runs[i].file_id] =
                            [status |-> "failed", error |-> msg]]
                    ELSE files
    /\ UNCHANGED <<tasks, nextId, supplied, extCall, extLeft, cases, reqRaised, sideVars>>

\* ------------------------------------------------------------ the plantuml job
\* plantuml_code = await chat_manager.export_testcases_to_plantuml(...)
PlExport(i, code_ok) ==
    /\ runs[i].pc = "pl_export"
    /\ SetRun(i, [runs[i] EXCEPT !.pc = IF code_ok THEN "pl_half" ELSE "pl_fail_export"])

\* image_data = await render_plantuml(...); the file is written
PlRender(i, out) ==
    /\ runs[i].pc = "pl_render"
    /\ SetRun(i, CASE out = "image" -> [runs[i] EXCEPT !.pc = "pl_completed"]
                   [] out = "none" -> [runs[i] EXCEPT !.pc = "pl_fail_render"]
                   [] out = "raise" -> Raise(runs[i], RenderMsg))

\* ------------------------------------------------------------ specifications
\* the steps every started job takes: its update_task calls, and the body of
\* an arbitrary job
JobStep ==
    \E i \in Runs :
        \/ UpdateRead(i)
        \/ UpdateUnknown(i)
        \/ UpdateCommit(i)
        \/ UpdateStale(i)
        \/ \E v \in JobReturns : JobReturn(i, v)
        \/ \E m \in JobErrors : JobRaise(i, m)

\* the steps of the generation job
GenStep ==
    \E i \in Runs :
        \/ GenFile(i)
        \/ \E b \in BOOLEAN : ZipPaths(i, b)
        \/ \E b \in BOOLEAN : ZipAnalyze(i, b)
        \/ \E out \in BatchOutcomes(runs[i].idx) : ZipBatch(i, out)
        \/ GenCommit(i)
        \/ GenExcept(i)

\* the steps of the plantuml job
PlStep ==
    \E i \in Runs :
        \/ \E b \in BOOLEAN : PlExport(i, b)
        \/ \E out \in {"image", "none", "raise"} : PlRender(i, out)

\* the requests that create and delete tasks
TableStep ==
    \/ \E req \in CreateRequests : CreateTask(req)
    \/ CreateTaskNoParams
    \/ \E t \in TaskIds : DeleteTask(t)

\* The program: the endpoints create a task and start its job once
\* (generate_cases_from_file, generate_plantuml_async), a caller of the library
\* may start any other job on a task it created, tasks are deleted at any time
Next ==
    \/ JobStep
    \/ GenStep
    \/ PlStep
    \/ TableStep
    \/ \E t \in TaskIds, f \in FileIds : ~HasRun(t) /\ ScheduleGenerate(t, f)
    \/ \E t \in TaskIds : ~HasRun(t) /\ RunBackgroundTask(t)
    \/ \E t \in TaskIds : ~HasRun(t) /\ StartPlantumlTask(t)

Spec == Init /\ [][Next]_vars

\* API clients of the task manager: they create tasks, call update_task at any
\* time from both execution contexts, and start arbitrary jobs on any task,
\* also on one that was run before. No task is deleted.
NextConc ==
    \/ \E req \in CreateRequests : nextId <= MaxConcTasks /\ CreateTask(req)
    \/ \E t \in TaskIds : RunBackgroundTask(t)
    \/ \E i \in Runs :
        \/ UpdateRead(i)
        \/ UpdateCommit(i)
        \/ \E v \in JobReturns : JobReturn(i, v)
        \/ \E m \in JobErrors : JobRaise(i, m)
    \/ \E p \in ExtProcs :
        \/ \E t \in TaskIds, a \in ExtArgs : ExtUpdateRead(p, t, a)
        \/ ExtUpdateCommit(p)

SpecConc == Init /\ [][NextConc]_vars

\* update_task calls that carry a progress value, as a job body or any other
\* caller may issue them while a job runs: `progress: int` is stored as given
ProgressArgs == {UpdArgs(None, 50, FALSE, EmptyMap, None),
                 UpdArgs(None, 10, FALSE, EmptyMap, None),
                 UpdArgs(None, 150, FALSE, EmptyMap, None)}

\* one task, run once by run_background_task, and progress updates issued
\* from both execution contexts during the run
NextProgress ==
    \/ \E req \in CreateRequests : nextId <= MaxConcTasks /\ CreateTask(req)
    \/ \E t \in TaskIds : ~HasRun(t) /\ RunBackgroundTask(t)
    \/ \E i \in Runs :
        \/ UpdateRead(i)
        \/ UpdateCommit(i)
        \/ \E v \in JobReturns : JobReturn(i, v)
        \/ \E m \in JobErrors : JobRaise(i, m)
    \/ \E p \in ExtProcs :
        \/ \E t \in TaskIds, a \in ProgressArgs : ExtUpdateRead(p, t, a)
        \/ ExtUpdateCommit(p)

SpecProgress == Init /\ [][NextProgress]_vars

\* ------------------------------------------------------------ retry, handle_exceptions
\* The decorators of utils/decorators.py around a function that returns or
\* raises when it is invoked. An exception is of a kind listed in the
\* `exceptions` tuple of retry ("transient") or of another kind ("fatal").
ErrorKinds == {"transient", "fatal"}
RetryableAll == {"transient", "fatal"}
\* exceptions=(...): the kinds `except exceptions as e` catches
Retryable == {"transient"}

\* default_return of handle_exceptions
Sentinel == "S"
\* what the decorated function returns when it succeeds
FuncValue == "value"

NoOutcome == [kind |-> "none", value |-> "", attempt |-> 0]
Returned(v) == [kind |-> "return", value |-> v, attempt |-> 0]
\* the exception raised by the k-th invocation
Raised(kind, k) == [kind |-> "raise", value |-> kind, attempt |-> k]

\* the locals of retry's wrapper at its entry: retry_count = 0,
\* current_delay = delay; `guarded` tells that handle_exceptions(default_return
\* = Sentinel) is applied over retry, `inner` that it is applied under retry
\* (retry decorates the function handle_exceptions returned)
RetryEntry(max_retries, delay, backoff, guarded) ==
    [pc |-> "call", max_retries |-> max_retries, delay |-> delay,
     backoff |-> backoff, guarded |-> guarded,
     inner |-> FALSE,
     earlier |-> <<>>,         \* the calls of the decorated function that ended
     retry_count |-> 0, current_delay |-> delay,
     calls |-> 0,              \* invocations of func so far
     attempts |-> <<>>,        \* what each invocation did: "ok" or the error kind
     sleeps |-> <<>>,          \* the durations passed to time.sleep, in order
     outcome |-> NoOutcome]    \* what the outermost wrapper returned or raised

\* `if retry_count >= max_retries: raise`
ExhaustedLate(retry_count, max_retries) == retry_count > max_retries

Exhausted(retry_count, max_retries) == retry_count >= max_retries

\* current_delay *= backoff
NextDelayConstant(current_delay, backoff) == current_delay

NextDelay(current_delay, backoff) == current_delay * backoff

\* handle_exceptions.wrapper: `try: return func(...)`,
\* `except Exception: ... return default_return`
handle_exceptions_always(guarded, out) ==
    IF guarded THEN Returned(Sentinel) ELSE out

handle_exceptions(guarded, out) ==
    IF guarded /\ out.kind = "raise" THEN Returned(Sentinel) ELSE out

\* func(*args, **kwargs) in retry's wrapper: with handle_exceptions applied
\* under retry, func is the wrapper of handle_exceptions
InvokeBare(inner, out) == out

Invoke(inner, out) == handle_exceptions(inner, out)

\* the call leaves retry's wrapper with `out`, through handle_exceptions when
\* that is applied
Leave(r, out) == [r EXCEPT !.pc = "done", !.outcome = handle_exceptions(r.guarded, out)]

\* `return func(*args, **kwargs)`: the invocation returns
FuncReturns ==
    /\ rt.pc = "call"
    /\ rt' = Leave([rt EXCEPT !.calls = @ + 1, !.attempts = Append(@, "ok")],
                   Invoke(rt.inner, Returned(FuncValue)))
    /\ UNCHANGED <<engineVars, an, bg, api>>

\* the invocation raises an exception of kind `kind`: one not listed in
\* `exceptions` leaves the wrapper; a listed one is counted, and is re-raised
\* when retry_count has reached max_retries
FuncRaises(kind) ==
    /\ rt.pc = "call"
    /\ LET r == [rt EXCEPT !.calls = @ + 1, !.attempts = Append(@, kind)]
           e == Raised(kind, r.calls)
       IN rt' = IF Invoke(r.inner, e).kind = "return"
                THEN Leave(r, Invoke(r.inner, e))
                ELSE IF kind \notin Retryable
                THEN Leave(r, e)
                ELSE IF Exhausted(r.retry_count + 1, r.max_retries)
                     THEN Leave([r EXCEPT !.retry_count = @ + 1], e)
                     ELSE [r EXCEPT !.retry_count = @ + 1, !.pc = "sleep"]
    /\ UNCHANGED <<engineVars, an, bg, api>>

\* time.sleep(current_delay); current_delay *= backoff
RetrySleep ==
    /\ rt.pc = "sleep"
    /\ rt' = [rt EXCEPT !.sleeps = Append(@, rt.current_delay),
                        !.current_delay = NextDelay(@, rt.backoff),
                        !.pc = "call"]
    /\ UNCHANGED <<engineVars, an, bg, api>>

\* one decorated call, for every way the decorators are built
RetryInit ==
    /\ EngineInit
    /\ an = AnalyzeIdle
    /\ bg = WorkerIdle
    /\ api = ApiIdle
    /\ rt \in {RetryEntry(m, d, b, g) : m \in 0..MaxRetriesArg, d \in 1..MaxDelay,
                                       b \in 1..MaxBackoff, g \in BOOLEAN}

RetryNext ==
    \/ FuncReturns
    \/ \E kind \in ErrorKinds : FuncRaises(kind)
    \/ RetrySleep

SpecRetry == RetryInit /\ [][RetryNext]_vars

\* the decorated function is called again after a call ended: the wrapper's
\* locals are created anew from the decorator's arguments
CallAgainKeeps ==
    /\ rt.pc = "done"
    /\ Len(rt.earlier) < MaxCallsAgain
    /\ rt' = [rt EXCEPT
                 !.pc = "call", !.calls = 0, !.attempts = <<>>, !.sleeps = <<>>,
                 !.outcome = NoOutcome,
                 !.earlier = Append(@, [attempts |-> rt.attempts, sleeps |-> rt.sleeps,
                                        outcome |-> rt.outcome])]
    /\ UNCHANGED <<engineVars, an, bg, api>>

CallAgain ==
    /\ rt.pc = "done"
    /\ Len(rt.earlier) < MaxCallsAgain
    /\ rt' = [RetryEntry(rt.max_retries, rt.delay, rt.backoff, rt.guarded) EXCEPT
                 !.inner = rt.inner,
                 !.earlier = Append(rt.earlier,
                                    [attempts |-> rt.attempts, sleeps |-> rt.sleeps,
                                     outcome |-> rt.outcome])]
    /\ UNCHANGED <<engineVars, an, bg, api>>

\* @retry(...) over @handle_exceptions(default_return=Sentinel)
StackedEntry(max_retries, delay, backoff) ==
    [RetryEntry(max_retries, delay, backoff, FALSE) EXCEPT !.inner = TRUE]

\* a decorated function called repeatedly, for both orders of the decorators
RetryCallsInit ==
    /\ EngineInit
    /\ an = AnalyzeIdle
    /\ bg = WorkerIdle
    /\ api = ApiIdle
    /\ rt \in {RetryEntry(m, d, b, g) : m \in 0..MaxRetriesArg, d \in 1..MaxDelay,
                                        b \in 1..MaxBackoff, g \in BOOLEAN}
              \cup {StackedEntry(m, d, b) : m \in 0..MaxRetriesArg, d \in 1..MaxDelay,
                                           b \in 1..MaxBackoff}

RetryCallsNext ==
    \/ FuncReturns
    \/ \E kind \in ErrorKinds : FuncRaises(kind)
    \/ RetrySleep
    \/ CallAgain

SpecRetryCalls == RetryCallsInit /\ [][RetryCallsNext]_vars

\* ------------------------------------------------------------ the analysis of the images
\* _process_zip_file keeps the image paths that exist (a missing one is logged
\* and skipped) and hands them to analyze_requirement: one request for all
\* images, tried up to max_retries times, and for more than one image a second
\* request that summarizes the analysis.
\* max_retries = 3 of analyze_requirement
AnalyzeMaxRetries == 3
\* await asyncio.sleep(2) of its except clause
AnalyzeRetryDelay == 2

\* what `await self.chat_graph.chat(...)` followed by safe_json_loads gives:
\* the call raises; no response; a response that is not JSON or parses to an
\* empty value; one that parses to a value that is neither a dict nor a list;
\* to a non-empty list of dicts; to a non-empty dict
ChatOutcomes == {"raise", "none", "badjson", "scalar", "list", "dict"}

NoSummary == [kind |-> "None", images |-> {}, base |-> ""]
\* normalized_result of the first request over the images given
Analysis(images, base) == [kind |-> "analysis", images |-> images, base |-> base]
\* summary_result: the summary of that analysis
Summarized(normalized) == [normalized EXCEPT !.kind = "summary"]

\* the locals at the entry of _process_zip_file; `found` are the paths that exist
AnalyzeEntry(found) ==
    [pc |-> "paths", found |-> found,
     image_files |-> {},
     attempt |-> 0,            \* the loop variable of `for attempt in range(max_retries)`
     response |-> "none",      \* response: "none" or "text"
     result |-> "unset",       \* result: not assigned, "falsy", or the kind of value parsed
     sleeps |-> <<>>,          \* the durations passed to asyncio.sleep, in order
     callbacks |-> <<>>,       \* the arguments of the progress_callback calls
     summary_prompt |-> "unset",   \* summary_prompt: not rendered, "text" or "none"
     aggregated |-> FALSE,     \* the summary request was sent
     summary_out |-> "unset",  \* what the summary request gave
     agg_input |-> NoSummary,  \* the content of the summary prompt
     summary |-> NoSummary,    \* what analyze_requirement returned
     error |-> None]           \* the ValueError _process_zip_file raised

\* `if image_paths and len(image_paths) > 1`
NeedsSummaryAlways(image_paths) == Cardinality(image_paths) >= 1

NeedsSummary(image_paths) == Cardinality(image_paths) > 1

\* analyze_requirement returns v; `if not summary: raise ValueError("需求分析失败")`
AnalyzeReturn(a, v) ==
    [a EXCEPT !.pc = "done", !.summary = v,
              !.error = IF v = NoSummary THEN AnalysisFailedMsg ELSE None]

\* the code after the retry loop up to the summary request: the checks of
\* response and result, `result = result[0]` for a list, the normalisation,
\* and the rendering of the summary prompt (summary_prompt_ok)
AfterAttempts(a, summary_prompt_ok) ==
    IF a.response = "none" \/ a.result \in {"unset", "falsy"} THEN AnalyzeReturn(a, NoSummary)
    ELSE IF a.result = "scalar" THEN AnalyzeReturn(a, NoSummary)
    ELSE LET normalized ==
                Analysis(a.image_files, IF a.result = "list" THEN "first" ELSE "whole")
         IN IF ~NeedsSummary(a.image_files) THEN AnalyzeReturn(a, normalized)
            ELSE IF summary_prompt_ok
            THEN [a EXCEPT !.pc = "summary", !.summary_prompt = "text",
                           !.aggregated = TRUE, !.agg_input = normalized]
            ELSE AnalyzeReturn([a EXCEPT !.summary_prompt = "none"], normalized)

\* the summary request answered `out`: a non-empty dict replaces
\* normalized_result, anything else (and an exception) leaves it
SummaryResultOrNone(normalized, out) ==
    IF out = "dict" THEN Summarized(normalized) ELSE NoSummary

SummaryResult(normalized, out) ==
    IF out = "dict" THEN Summarized(normalized) ELSE normalized

\* _process_zip_file: the loop over paths; `if not image_files: raise`
ZipImageFiles ==
    /\ an.pc = "paths"
    /\ an' = IF an.found = {}
             THEN [an EXCEPT !.pc = "done", !.error = NoImagesMsg]
             ELSE [an EXCEPT !.pc = "prompt", !.image_files = an.found]
    /\ UNCHANGED <<engineVars, rt, bg, api>>

\* analyze_requirement: prompt = self.template.render(...); `if not prompt: return None`
RenderPrompt(prompt_ok) ==
    /\ an.pc = "prompt"
    /\ an' = IF prompt_ok THEN [an EXCEPT !.pc = "attempt"] ELSE AnalyzeReturn(an, NoSummary)
    /\ UNCHANGED <<engineVars, rt, bg, api>>

\* one turn of `for attempt in range(max_retries)`, and after the last turn or
\* a break the code that follows the loop
ChatAttempt(out, summary_prompt_ok) ==
    /\ an.pc = "attempt"
    /\ LET last == an.attempt = AnalyzeMaxRetries - 1
           a == CASE out = "raise" ->
                        [an EXCEPT !.sleeps = IF last THEN @
                                              ELSE Append(@, AnalyzeRetryDelay)]
                  [] out = "none" -> [an EXCEPT !.response = "none"]
                  [] out = "badjson" ->
                        [an EXCEPT !.response = "text", !.result = "falsy",
                                   !.callbacks = Append(@, <<an.attempt + 1, AnalyzeMaxRetries>>)]
                  [] OTHER -> [an EXCEPT !.response = "text", !.result = out]
           break == out \in {"scalar", "list", "dict"}
       IN an' = IF break \/ last
                THEN AfterAttempts(a, summary_prompt_ok)
                ELSE [a EXCEPT !.attempt = @ + 1]
    /\ UNCHANGED <<engineVars, rt, bg, api>>

\* summary_response = await self.chat_graph.chat(summary_messages, ...)
SummaryChat(out) ==
    /\ an.pc = "summary"
    /\ an' = AnalyzeReturn([an EXCEPT !.summary_out = out],
                           SummaryResult(an.agg_input, out))
    /\ UNCHANGED <<engineVars, rt, bg, api>>

AnalyzeInit ==
    /\ EngineInit
    /\ rt = RetryIdle
    /\ bg = WorkerIdle
    /\ api = ApiIdle
    /\ an \in {AnalyzeEntry(found) : found \in SUBSET (1..MaxImages)}

AnalyzeNext ==
    \/ ZipImageFiles
    \/ \E ok \in BOOLEAN : RenderPrompt(ok)
    \/ \E out \in ChatOutcomes, ok \in BOOLEAN : ChatAttempt(out, ok)
    \/ \E out \in ChatOutcomes \ {"list"} : SummaryChat(out)

SpecAnalyze == AnalyzeInit /\ [][AnalyzeNext]_vars

\* ------------------------------------------------------------ the background worker
\* run_background_task is a plain method: _ensure_background_loop, then
\* asyncio.run_coroutine_threadsafe(wrapped_task(), cls._background_loop).
\* It takes no lock, so calls from different threads interleave between any
\* two reads or writes of the class attributes. Threads, loops and events are
\* numbered in creation order; 0 is None.
Callers == {"main", "other"}

\* Thread.is_alive(): started and not terminated
IsAlive(th) == th.state \in {"started", "running"}

WorkerEntry ==
    [thread |-> 0,             \* cls._background_thread
     loop |-> 0,               \* cls._background_loop
     event |-> 0,              \* cls._background_event
     events |-> <<>>,          \* the threading.Event objects created: is it set
     threads |-> <<>>,         \* the Thread objects created: [state, loop run]
     loops |-> <<>>,           \* the event loops created: the thread running it,
                               \* the callbacks handed to it, the jobs it ran
     njobs |-> 0,              \* run_background_task calls so far
     callers |-> [c \in Callers |->
                    [pc |-> "idle", job |-> 0, left |-> MaxCalls, raised |-> FALSE]]]

\* a thread calls run_background_task(task_id, coro, ...)
CallRunBackgroundTask(c) ==
    /\ bg.callers[c].pc = "idle"
    /\ bg.callers[c].left > 0
    /\ bg' = [bg EXCEPT !.njobs = @ + 1,
                        !.callers[c] = [@ EXCEPT !.pc = "check", !.job = bg.njobs + 1,
                                                 !.left = @ - 1]]
    /\ UNCHANGED <<engineVars, rt, an, api>>

\* `if cls._background_thread is None or not cls._background_thread.is_alive()`
EnsureCheck(c) ==
    /\ bg.callers[c].pc = "check"
    /\ bg' = [bg EXCEPT !.callers[c].pc =
                IF bg.thread = 0 \/ ~IsAlive(bg.threads[bg.thread])
                THEN "new_loop" ELSE "submit"]
    /\ UNCHANGED <<engineVars, rt, an, api>>

\* cls._background_event = threading.Event();
\* cls._background_loop = asyncio.new_event_loop()
EnsureNewLoop(c) ==
    /\ bg.callers[c].pc = "new_loop"
    /\ bg' = [bg EXCEPT !.events = Append(@, FALSE),
                        !.event = Len(bg.events) + 1,
                        !.loops = Append(@, [runner |-> 0, queue |-> <<>>, ran |-> {}]),
                        !.loop = Len(bg.loops) + 1,
                        !.callers[c].pc = "new_thread"]
    /\ UNCHANGED <<engineVars, rt, an, api>>

\* cls._background_thread = threading.Thread(target=run_background_loop, ...)
EnsureNewThread(c) ==
    /\ bg.callers[c].pc = "new_thread"
    /\ bg' = [bg EXCEPT !.threads = Append(@, [state |-> "new", loop |-> 0]),
                        !.thread = Len(bg.threads) + 1,
                        !.callers[c].pc = "start"]
    /\ UNCHANGED <<engineVars, rt, an, api>>

\* cls._background_thread.start(): the attribute is read again; starting a
\* thread that was started raises RuntimeError into the caller. start()
\* returns when the thread has been spawned, _ensure_background_loop returns
EnsureStart(c) ==
    /\ bg.callers[c].pc = "start"
    /\ bg' = IF bg.threads[bg.thread].state = "new"
             THEN [bg EXCEPT !.threads[bg.thread].state = "started",
                             !.callers[c].pc = "submit"]
             ELSE [bg EXCEPT !.callers[c].pc = "idle", !.callers[c].raised = TRUE]
    /\ UNCHANGED <<engineVars, rt, an, api>>

\* asyncio.run_coroutine_threadsafe(wrapped_task(), cls._background_loop):
\* the callback is queued on the loop the attribute names now; the future the
\* call returns is dropped, run_background_task returns
SubmitAndWait(c) ==
    /\ bg.callers[c].pc = "submit"
    /\ bg.loops[bg.loop].runner # 0
    /\ bg.loops[bg.loop].queue = <<>>
    /\ bg' = [bg EXCEPT !.loops[bg.loop].ran = @ \cup {bg.callers[c].job},
                        !.callers[c].pc = "idle"]
    /\ UNCHANGED <<engineVars, rt, an, api>>

Submit(c) ==
    /\ bg.callers[c].pc = "submit"
    /\ bg' = [bg EXCEPT !.loops[bg.loop].queue = Append(@, bg.callers[c].job),
                        !.callers[c].pc = "idle"]
    /\ UNCHANGED <<engineVars, rt, an, api>>

\* run_background_loop in a spawned thread:
\* asyncio.set_event_loop(cls._background_loop); loop.run_forever(), which
\* raises RuntimeError when that loop is already running
ThreadRun(t) ==
    /\ t \in 1..Len(bg.threads)
    /\ bg.threads[t].state = "started"
    /\ bg' = IF bg.loops[bg.loop].runner = 0
             THEN [bg EXCEPT !.threads[t] = [state |-> "running", loop |-> bg.loop],
                             !.loops[bg.loop].runner = t]
             ELSE [bg EXCEPT !.threads[t].state = "dead"]
    /\ UNCHANGED <<engineVars, rt, an, api>>

\* a running loop takes the next callback of its queue: wrapped_task starts
LoopRun(l) ==
    /\ l \in 1..Len(bg.loops)
    /\ bg.loops[l].runner # 0
    /\ bg.loops[l].queue # <<>>
    /\ bg' = [bg EXCEPT !.loops[l].queue = Tail(@),
                        !.loops[l].ran = @ \cup {Head(bg.loops[l].queue)}]
    /\ UNCHANGED <<engineVars, rt, an, api>>

\* the steps of one run_background_task call in its calling thread
CallerStep(c) ==
    \/ EnsureCheck(c)
    \/ EnsureNewLoop(c)
    \/ EnsureNewThread(c)
    \/ EnsureStart(c)
    \/ Submit(c)

WorkerInit ==
    /\ EngineInit
    /\ rt = RetryIdle
    /\ an = AnalyzeIdle
    /\ api = ApiIdle
    /\ bg = WorkerEntry

WorkerNext ==
    \/ \E c \in Callers :
        \/ CallRunBackgroundTask(c)
        \/ EnsureCheck(c)
        \/ EnsureNewLoop(c)
        \/ EnsureNewThread(c)
        \/ EnsureStart(c)
        \/ Submit(c)
    \/ \E t \in 1..(2 * MaxCalls) : ThreadRun(t)
    \/ \E l \in 1..(2 * MaxCalls) : LoopRun(l)

SpecWorker == WorkerInit /\ [][WorkerNext]_vars

\* every thread keeps running: a calling thread finishes its call, a spawned
\* thread runs its target, a running loop takes the callbacks of its queue
WorkerFairness ==
    /\ \A c \in Callers : WF_vars(CallerStep(c))
    /\ \A t \in 1..(2 * MaxCalls) : WF_vars(ThreadRun(t))
    /\ \A l \in 1..(2 * MaxCalls) : WF_vars(LoopRun(l))

SpecWorkerFair == SpecWorker /\ WorkerFairness

\* ------------------------------------------------------------ list_tasks, delete_task
\* One call of list_tasks or delete_task on a task table with rows of the
\* columns the two methods read. The rows are numbered by their ids.
ListTypes == {"generate_cases", "plantuml_generation"}
ListStatuses == {"pending", "completed"}
Rows == [type : ListTypes, status : ListStatuses, updated_at : 1..MaxTime]
Tables == UNION {[1..n -> Rows] : n \in 0..MaxRows}

\* the filters a caller passes: None (the default), a value, or ''
TypeFilters == {None} \cup ListTypes
StatusFilters == {None, ""} \cup ListStatuses

\* the arguments of a list_tasks call and of a delete_task call
ListArgs(task_type, status, page, page_size) ==
    [task_type |-> task_type, status |-> status, page |-> page, page_size |-> page_size,
     task_id |-> 0, delete_cases |-> FALSE, db |-> FALSE]
DeleteArgs(task_id, delete_cases, db) ==
    [task_type |-> None, status |-> None, page |-> 0, page_size |-> 0,
     task_id |-> task_id, delete_cases |-> delete_cases, db |-> db]

\* the state at the entry of a call
ApiEntry(table, case_counts) ==
    [pc |-> "call", table |-> table,
     cases |-> case_counts,    \* task id -> number of TestCase rows with that task_id
     op |-> "none", args |-> DeleteArgs(0, FALSE, FALSE),
     items |-> <<>>, total |-> 0,      \* what list_tasks returned
     ret |-> "unset",                  \* what delete_task returned: "True" / "False"
     steps |-> <<>>,                   \* the deletions of delete_task, in order
     before |-> table]                 \* the table at the entry

\* `if task_type: query = query.where(Task.type == task_type)`, same for status
Matches(row, task_type, status) ==
    /\ (task_type \in {None, ""} \/ row.type = task_type)
    /\ (status \in {None, ""} \/ row.status = status)

Matching(table, task_type, status) ==
    {i \in DOMAIN table : Matches(table[i], task_type, status)}

\* query.order_by(Task.updated_at.desc()): the orders the database may return
\* the rows `ids` in (rows with equal updated_at come in any order)
Orderings(table, ids) ==
    {ord \in [1..Cardinality(ids) -> ids] :
        /\ \A k, j \in DOMAIN ord : k # j => ord[k] # ord[j]
        /\ \A k, j \in DOMAIN ord :
            k < j => table[ord[k]].updated_at >= table[ord[j]].updated_at}

\* .offset((page - 1) * page_size)
OffsetFromPage(page, page_size) == page * page_size

Offset(page, page_size) == (page - 1) * page_size

Min(a, b) == IF a <= b THEN a ELSE b

\* query.limit(page_size).offset(...): the rows of the page
Page(ord, page, page_size) ==
    SubSeq(ord, Offset(page, page_size) + 1,
           Min(Len(ord), Offset(page, page_size) + page_size))

\* the dict returned for a row
TaskDict(table, i) ==
    [id |-> i, type |-> table[i].type, status |-> table[i].status,
     updated_at |-> table[i].updated_at]

\* list_tasks(task_type, status, page, page_size): the page query, then the
\* count query with the same filters
ListTasks(task_type, status, page, page_size) ==
    /\ api.pc = "call"
    /\ \E ord \in Orderings(api.table, Matching(api.table, task_type, status)) :
        LET pg == Page(ord, page, page_size) IN
        api' = [api EXCEPT
                   !.pc = "done", !.op = "list_tasks",
                   !.args = ListArgs(task_type, status, page, page_size),
                   !.items = [k \in 1..Len(pg) |-> TaskDict(api.table, pg[k])],
                   !.total = Cardinality(Matching(api.table, task_type, status))]
    /\ UNCHANGED <<engineVars, rt, an, bg>>

ListInit ==
    /\ EngineInit
    /\ rt = RetryIdle
    /\ an = AnalyzeIdle
    /\ bg = WorkerIdle
    /\ api \in {ApiEntry(table, [i \in DOMAIN table |-> 0]) : table \in Tables}

\* the pages and sizes the endpoint accepts: page >= 1, 1 <= page_size
ListNext ==
    \E task_type \in TypeFilters, status \in StatusFilters,
       page \in 1..MaxPage, page_size \in 1..MaxPageSize :
        ListTasks(task_type, status, page, page_size)

SpecList == ListInit /\ [][ListNext]_vars

\* delete_task(task_id, delete_cases, db): the SELECT;
\* `if not task: return False`; `if delete_cases and db`
DeleteSelect(task_id, delete_cases, db) ==
    /\ api.pc = "call"
    /\ api' = [api EXCEPT
                  !.op = "delete_task",
                  !.args = DeleteArgs(task_id, delete_cases, db),
                  !.pc = IF task_id \notin DOMAIN api.table THEN "done"
                         ELSE IF delete_cases /\ db THEN "cascade" ELSE "delete",
                  !.ret = IF task_id \notin DOMAIN api.table THEN "False" ELSE @]
    /\ UNCHANGED <<engineVars, rt, an, bg>>

\* await CaseService.delete_cases_by_task_id(task_id, db): the cases are
\* deleted and it returns True, or it catches its exception and returns
\* False; delete_task does not look at what it returned
DeleteCascade(deleted) ==
    /\ api.pc = "cascade"
    /\ api' = [api EXCEPT
                  !.cases[api.args.task_id] = IF deleted THEN 0 ELSE @,
                  !.steps = Append(@, IF deleted THEN "cases_deleted" ELSE "cases_kept"),
                  !.pc = "delete"]
    /\ UNCHANGED <<engineVars, rt, an, bg>>

\* await session.delete(task); await session.commit(); return True
DeleteCommit ==
    /\ api.pc = "delete"
    /\ api' = [api EXCEPT
                  !.table = [i \in (DOMAIN api.table) \ {api.args.task_id} |-> api.table[i]],
                  !.steps = Append(@, "task_deleted"),
                  !.ret = "True",
                  !.pc = "done"]
    /\ UNCHANGED <<engineVars, rt, an, bg>>

\* every task has no case or one
DeleteInit ==
    /\ EngineInit
    /\ rt = RetryIdle
    /\ an = AnalyzeIdle
    /\ bg = WorkerIdle
    /\ api \in {ApiEntry(table, case_counts) :
                    table \in Tables, case_counts \in [1..MaxRows -> 0..1]}

DeleteNext ==
    \/ \E task_id \in 1..MaxRows, delete_cases \in BOOLEAN, db \in BOOLEAN :
        DeleteSelect(task_id, delete_cases, db)
    \/ \E deleted \in BOOLEAN : DeleteCascade(deleted)
    \/ DeleteCommit

SpecDelete == DeleteInit /\ [][DeleteNext]_vars

\* ------------------------------------------------------------ claims
Terminal == {"completed", "failed"}
Statuses == {"pending", "running", "completed", "failed"}
Edges == {<<"pending", "running">>, <<"running", "completed">>, <<"running", "failed">>}

\* C1: once a task's status is completed or failed, no later update_task call
\* changes it. Fails under SpecConc: update_task assigns any status it is
\* given, e.g. 'running' from a client or from a second run_background_task.
C1_TerminalStatusFrozen ==
    [][\A t \in TaskIds :
        (t \in DOMAIN tasks /\ t \in DOMAIN tasks' /\ tasks[t].status \in Terminal)
            => tasks'[t].status = tasks[t].status]_vars

\* C2: a status is always one of pending, running, completed, failed and only
\* changes along pending->running, running->completed, running->failed.
\* Fails: process_plantuml_task writes status 'processing'.
C2_StatusMachine ==
    [][\A t \in TaskIds :
        t \in DOMAIN tasks' =>
            /\ tasks'[t].status \in Statuses
            /\ (t \in DOMAIN tasks /\ tasks'[t].status # tasks[t].status)
                    => <<tasks[t].status, tasks'[t].status>> \in Edges]_vars

\* C3: when update_task(t, result={a:1}) and update_task(t, result={b:2}) have
\* both returned, the stored result contains a and b. Fails under SpecConc:
\* both calls load the row before either commits, the second commit writes its
\* own merged dict.
C3_BothUpdatesKept ==
    \A p, q \in ExtProcs :
        (/\ extCall[p] # <<>> /\ extCall[q] # <<>>
         /\ extCall[p][1].returned /\ extCall[q][1].returned
         /\ extCall[p][1].task = extCall[q][1].task
         /\ extCall[p][1].args.result = [a |-> 1]
         /\ extCall[q][1].args.result = [b |-> 2])
        => {"a", "b"} \subseteq DOMAIN tasks[extCall[p][1].task].result

\* C4: an update_task call with result R leaves every key outside R with its
\* value, gives every key of R its value from R and adds no other key; a call
\* without result leaves result unchanged.
C4_MergeFrame ==
    [][\A i \in Runs :
        (/\ runs[i].call # <<>> /\ runs'[i].call = <<>>
         /\ runs[i].task \in DOMAIN tasks /\ runs[i].task \in DOMAIN tasks')
        => LET a == runs[i].call[1].args
               old == tasks[runs[i].task].result
               new == tasks'[runs[i].task].result
           IN IF a.hasResult
              THEN /\ DOMAIN new = (DOMAIN old) \cup (DOMAIN a.result)
                   /\ \A k \in (DOMAIN old) \ (DOMAIN a.result) : new[k] = old[k]
                   /\ \A k \in DOMAIN a.result : new[k] = a.result[k]
              ELSE new = old]_vars

\* a result that kept cases_count (written two updates earlier) while its
\* progress key was overwritten
C4_Witness ==
    \E t \in DOMAIN tasks :
        /\ "cases_count" \in DOMAIN tasks[t].result
        /\ tasks[t].result["progress"] = "saving test cases"
        /\ tasks[t].result["project_name"] = "Acme"

\* C5: get_task_info right after create_task(type, params) returns status
\* pending, progress 0 and a result equal to params. Fails: create_task stores
\* {progress, project_name, module_name}, whatever params holds.
C5_CreateThenGet ==
    [][\A t \in TaskIds :
        (t \notin DOMAIN supplied /\ t \in DOMAIN supplied')
        => LET info == get_task_info(tasks', t) IN
            /\ info.found
            /\ info.status = "pending"
            /\ info.progress = 0
            /\ info.result = supplied'[t].params]_vars

\* C6: when the job of run_background_task raised an error with message M, the
\* task (if still stored) is failed with error M when wrapped_task ends.
C6_JobErrorRecorded ==
    [][\A i \in Runs :
        (/\ runs[i].pc \notin DonePcs /\ runs'[i].pc \in DonePcs
         /\ runs'[i].raised # None
         /\ runs[i].task \in DOMAIN tasks')
        => /\ tasks'[runs[i].task].status = "failed"
           /\ tasks'[runs[i].task].error = runs'[i].raised]_vars

\* a job that raised has ended and its task is stored
C6_Witness ==
    \E i \in Runs :
        /\ runs[i].pc = "done_raised"
        /\ runs[i].raised = "boom"
        /\ runs[i].task \in DOMAIN tasks
        /\ tasks[runs[i].task].error = "boom"

\* C7: when the job returned V, the task ends completed and the fields of V
\* are in its result. Fails: _run_task returns V to wrapped_task, which drops it.
C7_ReturnMerged ==
    \A i \in Runs :
        (runs[i].pc = "done_returned" /\ runs[i].returned /\ runs[i].task \in DOMAIN tasks)
        => /\ tasks[runs[i].task].status = "completed"
           /\ \A k \in DOMAIN runs[i].ret :
                /\ k \in DOMAIN tasks[runs[i].task].result
                /\ tasks[runs[i].task].result[k] = runs[i].ret[k]

\* C8: no call of create_task or run_background_task raises into the
\* request-handling context. Fails: create_task(type) with params=None.
C8_NoRaiseIntoCaller == reqRaised = {}

\* the job processed all its batches and every one failed
AllFailed(r) == Len(r.outs) = NumBatches /\ \A b \in 1..NumBatches : ~r.outs[b].ok

\* C9: a job whose items all fail ends failed with a non-empty error, and
\* update_task(status='failed') was called exactly once. Fails: the job body,
\* _run_task and wrapped_task each call it.
C9_FailedOnce ==
    \A i \in Runs :
        (runs[i].kind = "generate" /\ runs[i].pc \in DonePcs /\ AllFailed(runs[i]))
        => /\ runs[i].failedCalls = 1
           /\ runs[i].task \in DOMAIN tasks
                => /\ tasks[runs[i].task].status = "failed"
                   /\ tasks[runs[i].task].error \notin {None, ""}

\* number of batches that returned a list
Succeeded(r) == Cardinality({b \in 1..Len(r.outs) : r.outs[b].ok})
PartialSuccess(r) ==
    /\ Len(r.outs) = NumBatches
    /\ 0 < Succeeded(r) /\ Succeeded(r) < NumBatches

\* the valid cases of the batches that succeeded, in batch order
RECURSIVE ExpectedCases(_, _)
ExpectedCases(outs, b) ==
    IF b > Len(outs) THEN <<>>
    ELSE (IF outs[b].ok THEN SelectSeq(outs[b].cases, IsValid) ELSE <<>>)
            \o ExpectedCases(outs, b + 1)

SecondItemFailed(r) ==
    /\ Len(r.outs) = NumBatches
    /\ r.outs[1].ok /\ ~r.outs[2].ok /\ r.outs[3].ok

\* the tasks created with a project_name keep it in result in every state
ProjectNameKept ==
    \A t \in DOMAIN tasks :
        "project_name" \in DOMAIN supplied[t].params
        => /\ "project_name" \in DOMAIN tasks[t].result
           /\ tasks[t].result["project_name"] = supplied[t].params["project_name"]

AllTransient == \A k \in 1..Len(rt.attempts) : rt.attempts[k] = "transient"

Max(a, b) == IF a >= b THEN a ELSE b

RECURSIVE Pow(_, _)
Pow(b, n) == IF n = 0 THEN 1 ELSE b * Pow(b, n - 1)

\* C12: retry(max_retries=3, delay=d, backoff=b) around an operation that
\* fails twice with a retryable error and then succeeds returns the success
\* value after exactly three invocations and two sleeps, of d and then d*b.
C12_TwoFailuresThenSuccess ==
    (/\ rt.pc = "done" /\ rt.max_retries = 3
     /\ rt.attempts = <<"transient", "transient", "ok">>)
    => /\ rt.outcome = Returned(FuncValue)
       /\ rt.calls = 3
       /\ rt.sleeps = <<rt.delay, rt.delay * rt.backoff>>

\* the call with delay 2 and backoff 3 returned after sleeps of 2 and 6
C12_Witness ==
    /\ rt.pc = "done" /\ rt.max_retries = 3 /\ rt.delay = 2 /\ rt.backoff = 3
    /\ rt.attempts = <<"transient", "transient", "ok">>
    /\ rt.sleeps = <<2, 6>>
    /\ rt.outcome = Returned(FuncValue)

\* C13: an error of a kind outside the allowlist propagates from the attempt
\* that raised it: no sleep and no invocation follows; raised by the first
\* attempt, the operation was invoked exactly once and nothing slept, for
\* every max_retries.
C13_FatalNotRetried ==
    \A k \in 1..Len(rt.attempts) :
        rt.attempts[k] = "fatal"
        => /\ rt.pc = "done"
           /\ rt.calls = k
           /\ Len(rt.sleeps) = k - 1
           /\ k = 1 => rt.sleeps = <<>>
           /\ ~rt.guarded => rt.outcome = Raised("fatal", k)

\* a first attempt raised a not-retryable error with retries left
C13_Witness ==
    /\ rt.max_retries = 3 /\ ~rt.guarded
    /\ rt.attempts = <<"fatal">>
    /\ rt.calls = 1 /\ rt.sleeps = <<>>
    /\ rt.outcome = Raised("fatal", 1)

\* C14: the operation is invoked at most max(1, max_retries) times, the k-th
\* sleep lasts delay * backoff^(k-1); when every attempt raised a retryable
\* error and the call is over, the operation was invoked at least once, each
\* failed attempt but the last was followed by one sleep, and the error
\* propagated is that of the last attempt.
C14_BoundedAttempts ==
    /\ rt.calls <= Max(1, rt.max_retries)
    /\ \A k \in 1..Len(rt.sleeps) : rt.sleeps[k] = rt.delay * Pow(rt.backoff, k - 1)
    /\ (rt.pc = "done" /\ AllTransient)
        => /\ rt.calls >= 1
           /\ rt.calls = Max(1, rt.max_retries)
           /\ Len(rt.sleeps) = rt.calls - 1
           /\ ~rt.guarded => rt.outcome = Raised("transient", rt.calls)

\* three attempts failed, two sleeps of 2 and 6, the third error propagated
C14_Witness ==
    /\ rt.pc = "done" /\ ~rt.guarded /\ rt.max_retries = 3
    /\ rt.attempts = <<"transient", "transient", "transient">>
    /\ rt.sleeps = <<2, 6>>
    /\ rt.outcome = Raised("transient", 3)

\* C15 as stated: with handle_exceptions(default_return=S) over retry, an
\* operation that fails on every attempt makes the call return S after
\* max_retries invocations, and one that succeeds returns its own value.
\* Fails for max_retries = 0: the operation is invoked once.
C15_SentinelAfterBudget ==
    (rt.pc = "done" /\ rt.guarded)
    => /\ rt.outcome.kind = "return"
       /\ AllTransient
            => /\ rt.outcome = Returned(Sentinel)
               /\ rt.calls = rt.max_retries
       /\ rt.attempts[Len(rt.attempts)] = "ok" => rt.outcome = Returned(FuncValue)

\* C15 amended: the call returns S after max(1, max_retries) invocations
\* (max_retries of them when max_retries >= 1), never raises, and returns the
\* operation's own value when an attempt succeeds.
C15_SentinelAfterAttempts ==
    (rt.pc = "done" /\ rt.guarded)
    => /\ rt.outcome.kind = "return"
       /\ AllTransient
            => /\ rt.outcome = Returned(Sentinel)
               /\ rt.calls = Max(1, rt.max_retries)
               /\ rt.max_retries >= 1 => rt.calls = rt.max_retries
       /\ rt.attempts[Len(rt.attempts)] = "ok" => rt.outcome = Returned(FuncValue)

\* the guarded call returned S after three failed attempts
C15_Witness ==
    /\ rt.pc = "done" /\ rt.guarded /\ rt.max_retries = 3
    /\ rt.attempts = <<"transient", "transient", "transient">>
    /\ rt.outcome = Returned(Sentinel)

C17_SummaryFallback ==
    (an.pc = "done" /\ an.aggregated /\ an.summary_out # "dict")
    => /\ an.summary = an.agg_input
       /\ an.summary.kind = "analysis"
       /\ an.error = None

\* the summary request raised and the analysis of the two images was returned
C17_Witness ==
    /\ an.pc = "done" /\ an.aggregated
    /\ an.summary_out = "raise"
    /\ an.summary = Analysis({1, 2}, "whole")
    /\ an.error = None

\* C18: the items are processed one after another in list order, and for each
\* processed item the progress callback was called exactly once, after that
\* item's attempt concluded and before the next item's started, and its
\* update_task write took place. Fails: generate_testcases calls the callback
\* before the batch's attempt and does not await it, so it never runs.
C18_CallbackAfterItem ==
    \A i \in Runs :
        runs[i].kind = "generate"
        => \A b \in 1..Len(runs[i].outs) :
            /\ \E k \in 1..Len(runs[i].callbacks) : runs[i].callbacks[k].item = b
            /\ \A k \in 1..Len(runs[i].callbacks) :
                runs[i].callbacks[k].item = b
                => /\ runs[i].callbacks[k].concluded = b
                   /\ runs[i].callbacks[k].ran
                   /\ \A j \in 1..Len(runs[i].callbacks) :
                        runs[i].callbacks[j].item = b => j = k

\* C19: after any number of run_background_task calls, from any threads and
\* in any interleaving, at most one worker thread and one event loop have been
\* created, and every job was handed to that loop. Fails: two threads both
\* find _background_thread None and each creates a loop and a thread.
C19_OneWorker ==
    /\ Len(bg.threads) <= 1
    /\ Len(bg.loops) <= 1
    /\ \A l \in 1..Len(bg.loops) :
        (bg.loops[l].queue # <<>> \/ bg.loops[l].ran # {}) => l = 1

\* C20: when _ensure_background_loop has returned to a caller, the worker has
\* signalled readiness: the event is set and the loop is running. Fails: the
\* event is never set and start() returns before run_forever is entered.
C20_ReadyOnReturn ==
    \A c \in Callers :
        bg.callers[c].pc = "submit"
        => /\ bg.event # 0 /\ bg.events[bg.event]
           /\ bg.loop # 0 /\ bg.loops[bg.loop].runner # 0

\* C21: a run_background_task call never waits for the job: in every state
\* of the call its next step is enabled, whatever the worker and the jobs
\* are doing, and when the call returns its job is queued on a loop and has
\* not been started (its task is still pending).
C21_ReturnWithoutWaiting ==
    /\ [](\A c \in Callers : bg.callers[c].pc # "idle" => ENABLED CallerStep(c))
    /\ [][\A c \in Callers :
        (bg.callers[c].pc = "submit" /\ bg'.callers[c].pc = "idle")
            => /\ \E l \in 1..Len(bg'.loops) :
                    /\ bg'.loops[l].queue # <<>>
                    /\ bg'.loops[l].queue[Len(bg'.loops[l].queue)] = bg.callers[c].job
               /\ \A l \in 1..Len(bg'.loops) : bg.callers[c].job \notin bg'.loops[l].ran]_vars

\* the first call has returned while no thread runs the loop its job waits on
C21_Witness ==
    /\ bg.callers["main"].pc = "idle" /\ bg.callers["main"].job = 1
    /\ ~bg.callers["main"].raised
    /\ bg.loop # 0 /\ bg.loops[bg.loop].runner = 0
    /\ bg.loops[bg.loop].queue = <<1>>

\* job j waits in the queue of a loop; job j was started by a loop
JobQueued(j) ==
    \E l \in 1..Len(bg.loops) :
        \E k \in 1..Len(bg.loops[l].queue) : bg.loops[l].queue[k] = j
JobStarted(j) == \E l \in 1..Len(bg.loops) : j \in bg.loops[l].ran

\* C22: every job handed to run_background_task is eventually started by the
\* worker (only then its task leaves pending and can reach completed or
\* failed), under fair scheduling of all threads. Fails: a job queued on a loop
\* that a second caller replaced is never started.
C22_ScheduledJobRuns ==
    \A j \in 1..(2 * MaxCalls) : JobQueued(j) ~> JobStarted(j)

\* C23: a task's progress is always in 0..100, and no update issued while the
\* task is running lowers it. Fails: update_task stores the progress it is
\* given, e.g. 150, or 10 after 50.
C23_ProgressMonotone ==
    [][\A t \in TaskIds :
        t \in DOMAIN tasks'
        => /\ tasks'[t].progress \in 0..100
           /\ (/\ t \in DOMAIN tasks
               /\ tasks[t].status = "running" /\ tasks'[t].status = "running")
                => tasks'[t].progress >= tasks[t].progress]_vars

\* C24: no update_task call issued for a task whose status is already
\* completed or failed carries a progress value. Fails: after _generate_cases
\* has written status completed, _run_task calls
\* update_task(status='completed', progress=100).
C24_NoProgressAfterTerminal ==
    [][\A i \in Runs :
        (/\ runs[i].call = <<>> /\ runs'[i].call # <<>>
         /\ runs'[i].call[1].args.progress # NoProgress)
        => tasks[runs[i].task].status \notin Terminal]_vars

\* C25: in every state a stored task whose error is set has status failed.
\* Fails under SpecConc: update_task(status='running') on a failed task
\* changes the status and leaves the error.
C25_ErrorOnlyWhenFailed ==
    \A t \in DOMAIN tasks :
        tasks[t].error \notin {None, ""} => tasks[t].status = "failed"

\* an update_task call of job i for a task that is not stored returns in this step
UnknownUpdateReturns(i) ==
    /\ runs[i].pc \in UpdatePcs /\ runs[i].call = <<>>
    /\ runs[i].task \notin DOMAIN tasks
    /\ runs'[i] # runs[i]

\* update_task on an unknown id raises nothing and leaves the table as it is
UnknownUpdateIsNoOp ==
    [][\A i \in Runs :
        UnknownUpdateReturns(i)
        => /\ tasks' = tasks
           /\ runs'[i].pc = NextPc(runs[i])
           /\ runs'[i].exc = runs[i].exc]_vars

\* C26: update_task on an id that is not in the task table raises nothing,
\* creates no record, leaves every record unchanged, and logs a warning.
\* Fails: the call logs its entry at level info and nothing else.
C26_UnknownIdNoOpWarned ==
    [][\A i \in Runs :
        UnknownUpdateReturns(i)
        => /\ tasks' = tasks
           /\ runs'[i].pc = NextPc(runs[i])
           /\ runs'[i].exc = runs[i].exc
           /\ \E k \in 1..Len(runs'[i].logged) : runs'[i].logged[k] = "warning"]_vars

\* job i has executed at least one step of its body
BodyStarted(r) == r.call # <<>> \/ r.pc # NewRun(r.task, r.kind, r.file_id, EmptyMap).pc

\* C27: every job body, of a case-generation task and of a plantuml task,
\* executes on the background worker, never in the request-handling context.
\* Fails: generate_plantuml_async starts process_plantuml_task with
\* asyncio.create_task, on the loop that handles the requests.
C27_BodiesOnWorker ==
    \A i \in Runs : BodyStarted(runs[i]) => runs[i].context = "worker"

\* C28: the retry loop of analyze_requirement around its AI call makes at
\* most max_retries attempts, waits between failed attempts with exponential
\* backoff (each wait is the previous one multiplied by a backoff factor
\* above 1), and when the attempts are exhausted the analysis fails. Fails:
\* every wait is asyncio.sleep(2).
C28_ExponentialBackoff ==
    /\ an.attempt < AnalyzeMaxRetries
    /\ \E b \in 2..MaxBackoff :
        \A k \in 2..Len(an.sleeps) : an.sleeps[k] = an.sleeps[k - 1] * b
    /\ (an.pc = "done" /\ an.image_files # {} /\ an.result \in {"unset", "falsy"})
        => an.error = AnalysisFailedMsg

\* a filter that was passed: not None and not ''
Given(f) == f \notin {None, ""}

\* the rows of the table that match the filters given in the call
Wanted ==
    {i \in DOMAIN api.table :
        /\ Given(api.args.task_type) => api.table[i].type = api.args.task_type
        /\ Given(api.args.status) => api.table[i].status = api.args.status}

\* C29: list_tasks returns as total the number of tasks that match the
\* filters given, whatever page and page_size are, and as items the tasks
\* at positions (page-1)*page_size .. page*page_size-1 of those tasks in
\* descending order of updated_at: each item is a matching task, no task is
\* listed twice, and the item at position n of that order has at most n
\* matching tasks updated later than it and more than n updated at or after it.
C29_ListTasksPage ==
    (api.pc = "done" /\ api.op = "list_tasks")
    => LET a == api.args
           first == (a.page - 1) * a.page_size
       IN /\ api.total = Cardinality(Wanted)
          /\ Len(api.items) = Min(a.page_size, Max(0, Cardinality(Wanted) - first))
          /\ \A k \in 1..Len(api.items) :
                /\ api.items[k].id \in Wanted
                /\ api.items[k] = TaskDict(api.table, api.items[k].id)
                /\ \A j \in 1..Len(api.items) :
                    /\ k # j => api.items[k].id # api.items[j].id
                    /\ k < j => api.items[k].updated_at >= api.items[j].updated_at
                /\ Cardinality({i \in Wanted : api.table[i].updated_at
                                                > api.items[k].updated_at}) <= first + k - 1
                /\ Cardinality({i \in Wanted : api.table[i].updated_at
                                                >= api.items[k].updated_at}) >= first + k

\* page 2 of size 1 of the pending tasks: the older of two pending tasks, total 2
C29_Witness ==
    /\ api.pc = "done" /\ api.op = "list_tasks"
    /\ api.args.status = "pending" /\ api.args.page = 2 /\ api.args.page_size = 1
    /\ api.total = 2 /\ Len(api.items) = 1
    /\ api.items[1].updated_at = 1
    /\ \E i \in DOMAIN api.table : api.table[i].status = "completed"

\* get_task_info(task_id) after the call: the record, or not found
ApiTaskFound(task_id) == task_id \in DOMAIN api.table

\* C30: delete_task(task_id) returns True and removes the record when the
\* task exists (get_task_info then finds nothing), returns False and leaves
\* the task table unchanged when the task is unknown; when it is called with
\* delete_cases the cases of the task are deleted by
\* delete_cases_by_task_id before the task record is removed.
C30_DeleteTask ==
    (api.pc = "done" /\ api.op = "delete_task")
    => LET a == api.args IN
       /\ a.task_id \in DOMAIN api.before
          => /\ api.ret = "True"
             /\ ~ApiTaskFound(a.task_id)
             /\ \A i \in DOMAIN api.table : api.table[i] = api.before[i]
             /\ DOMAIN api.table = (DOMAIN api.before) \ {a.task_id}
       /\ a.task_id \notin DOMAIN api.before
          => /\ api.ret = "False"
             /\ api.table = api.before
       /\ (a.task_id \in DOMAIN api.before /\ a.delete_cases)
          => /\ api.steps = <<"cases_deleted", "task_deleted">>
             /\ api.cases[a.task_id] = 0

\* the part of C30 that does not involve the cases
C30_RecordRemoved ==
    (api.pc = "done" /\ api.op = "delete_task")
    => LET a == api.args IN
       /\ a.task_id \in DOMAIN api.before
          => /\ api.ret = "True"
             /\ ~ApiTaskFound(a.task_id)
             /\ DOMAIN api.table = (DOMAIN api.before) \ {a.task_id}
       /\ a.task_id \notin DOMAIN api.before
          => /\ api.ret = "False"
             /\ api.table = api.before

\* the columns of a row that update_task does not assign
Fixed(row) == [type |-> row.type, created_at |-> row.created_at,
               project_name |-> row.project_name, module_name |-> row.module_name]

\* C31: the id and the type of a task never change after its creation, and
\* the commit of an update_task call on task A changes nothing but A's
\* status, progress, result and error: A's type and created_at, the set of
\* stored ids and every field of every other task stay as they were.
C31_UpdateFrame ==
    [][/\ \A t \in (DOMAIN tasks) \cap (DOMAIN tasks') : Fixed(tasks'[t]) = Fixed(tasks[t])
       /\ \A i \in Runs :
            UpdateCommit(i)
            => /\ DOMAIN tasks' = DOMAIN tasks
               /\ \A t \in DOMAIN tasks : t # runs[i].task => tasks'[t] = tasks[t]]_vars

\* two tasks created at different times: one was run to completion by
\* update_task calls, the other still is as create_task stored it
C31_Witness ==
    \E a, b \in DOMAIN tasks :
        /\ a # b
        /\ tasks[a].status = "completed" /\ tasks[a].progress = 100
        /\ tasks[b].status = "pending" /\ tasks[b].progress = 0
        /\ tasks[a].type = supplied[a].type
        /\ tasks[a].created_at # tasks[b].created_at

\* C32: in every state get_task_info can observe, a task with status
\* completed has progress 100.
C32_CompletedAtHundred ==
    \A t \in DOMAIN tasks :
        get_task_info(tasks, t).status = "completed" => get_task_info(tasks, t).progress = 100

\* the tasks a case-generation job was started on
GenerateTasks == {runs[i].task : i \in {j \in Runs : runs[j].kind = "generate"}}

\* the same for the tasks that no case-generation job was started on
C32_OtherJobsAtHundred ==
    \A t \in (DOMAIN tasks) \ GenerateTasks :
        tasks[t].status = "completed" => tasks[t].progress = 100

\* the tasks that were created and then deleted
Deleted == Created \ DOMAIN tasks

\* the job i takes a step of an update_task call on a deleted task
UpdatesDeleted(i) ==
    /\ runs[i].task \in Deleted
    /\ runs[i].pc \in UpdatePcs
    /\ runs'[i] # runs[i]

\* C33: a task deleted while its job is pending or running is never
\* recreated: every later update_task call of the job leaves the task table
\* as it is and returns to the job without raising, and get_task_info keeps
\* returning not found.
C33_DeletedStaysDeleted ==
    [][/\ \A t \in Deleted : get_task_info(tasks', t) = NotFound
       /\ \A i \in Runs :
            UpdatesDeleted(i)
            => /\ tasks' = tasks
               /\ runs'[i].exc = runs[i].exc
               /\ runs'[i].pc = NextPc(runs[i])]_vars

\* what holds of C33: no row comes back, no update writes, and an update_task
\* call that starts after the deletion returns without raising
C33_IssuedAfterDeletion ==
    [][/\ \A t \in Deleted : get_task_info(tasks', t) = NotFound
       /\ \A i \in Runs :
            UpdatesDeleted(i)
            => /\ tasks' = tasks
               /\ runs[i].call = <<>>
                  => /\ runs'[i].exc = runs[i].exc
                     /\ runs'[i].pc = NextPc(runs[i])]_vars

C34_FailedReached ==
    \E i \in Runs :
        /\ runs[i].kind = "generate" /\ runs[i].task \in DOMAIN tasks
        /\ runs[i].pc = "done_raised"
        /\ tasks[runs[i].task].status = "failed"
        /\ runs[i].file_id \in DOMAIN files
        /\ files[runs[i].file_id].status = "failed"

\* the invocations of the running call that raised a retryable error
Retried == {k \in 1..Len(rt.attempts) : rt.attempts[k] = "transient"}

\* C35: the retry wrapper keeps no state between calls. In a call made after
\* an earlier call ended, also one that exhausted its retries, the attempt
\* count is the number of retryable failures of this call, the k-th sleep is
\* delay * backoff^(k-1), starting from the initial delay, and a call whose
\* invocations all fail makes max(1, max_retries) invocations.
C35_FreshLocals ==
    (rt.earlier # <<>> /\ ~rt.inner)
    => /\ rt.retry_count = Cardinality(Retried)
       /\ \A k \in 1..Len(rt.sleeps) : rt.sleeps[k] = rt.delay * Pow(rt.backoff, k - 1)
       /\ rt.pc = "call" => rt.current_delay = rt.delay * Pow(rt.backoff, Len(rt.sleeps))
       /\ (rt.pc = "call" /\ rt.calls = 0)
          => (rt.retry_count = 0 /\ rt.current_delay = rt.delay)
       /\ (rt.pc = "done" /\ AllTransient)
          => rt.calls = Max(1, rt.max_retries)

\* a call with delay 2 and backoff 3 exhausted its three attempts after sleeps
\* of 2 and 6, and the next call did the same
C35_Witness ==
    /\ rt.pc = "done" /\ ~rt.inner /\ ~rt.guarded
    /\ rt.max_retries = 3 /\ rt.delay = 2 /\ rt.backoff = 3
    /\ Len(rt.earlier) = 1
    /\ rt.earlier[1].attempts = <<"transient", "transient", "transient">>
    /\ rt.earlier[1].outcome = Raised("transient", 3)
    /\ rt.attempts = <<"transient", "transient", "transient">>
    /\ rt.sleeps = <<2, 6>>
    /\ rt.outcome = Raised("transient", 3)

\* C36: with retry applied over handle_exceptions, a failing operation is
\* invoked once, nothing sleeps and the default value is returned, whatever
\* the kind of the error and max_retries are; with handle_exceptions applied
\* over retry, an operation that fails every time with a retryable error is
\* invoked max(1, max_retries) times before the default value is returned.
C36_StackingOrder ==
    /\ (rt.inner /\ rt.attempts # <<>> /\ rt.attempts[1] \in ErrorKinds)
       => /\ rt.pc = "done"
          /\ rt.calls = 1
          /\ rt.sleeps = <<>>
          /\ rt.retry_count = 0
          /\ rt.outcome = Returned(Sentinel)
    /\ (rt.guarded /\ rt.pc = "done" /\ AllTransient)
       => /\ rt.calls = Max(1, rt.max_retries)
          /\ Len(rt.sleeps) = rt.calls - 1
          /\ rt.outcome = Returned(Sentinel)

\* retry(max_retries=3) over handle_exceptions: the operation raised a
\* retryable error and the call ended with the default value
C36_Witness ==
    /\ rt.inner /\ rt.max_retries = 3
    /\ rt.attempts = <<"transient">>
    /\ rt.pc = "done" /\ rt.sleeps = <<>>
    /\ rt.outcome = Returned(Sentinel)

====
